---------------------------- MODULE Spec2Model ----------------------------
(***************************************************************************)
(* Model of cli/ugreen_daemon.cpp: the LED daemon's shared state           *)
(* (leds_pending, leds_applied, oneshot_enabled, oneshot_start_time,       *)
(* pending_lock), the working thread that runs apply_leds() every 50 ms,   *)
(* and the command handler accept_and_process().                           *)
(***************************************************************************)
EXTENDS Integers, Sequences, FiniteSets, TLC

(* ------------------------------ bounds --------------------------------- *)

\* Size of the per-light arrays.  The source defines UGREEN_MAX_LEDS as 10
\* (ugreen_daemon.cpp:13); the model keeps the name and scales the value.
UGREEN_MAX_LEDS == 2

\* Number of command lines the handler reads in one behaviour.
MaxCmds == 2

(* --------------------------- program constants ------------------------- *)

\* std::max(50, t) in the blink and oneshot_set handlers.
T_MIN == 50

\* std::min(0x7fff, ...) in the blink and oneshot_set handlers.
T_MAX == 32767

\* std::time() counts seconds; the model's clock `now` counts milliseconds.
MS_PER_SEC == 1000

(* ------------------------------ inputs --------------------------------- *)

Leds == 0 .. (UGREEN_MAX_LEDS - 1)

\* Light ids a client may send: every valid one, one below and one above.
LedIds == (-1) .. UGREEN_MAX_LEDS

OpModes == {"off", "on", "blink", "breath"}

\* Arguments of brightness_set.
Levels == {0, 2}

\* Arguments of color_set.
Colors == {<<0, 0, 0>>, <<0, 1, 1>>}

\* <t_on, t_off> arguments of oneshot_set, in milliseconds.
TPairs == {<<10, 10>>, <<40000, 10>>}

\* <sub-type, t_on, t_off> arguments of blink; "fade" stands for any word
\* other than blink and breath.
BlinkArgs == {<<"blink", 10, 10>>, <<"blink", 40000, 10>>,
              <<"breath", 40000, 10>>, <<"fade", 10, 10>>}

Commands == {"brightness_set", "color_set", "on", "off", "blink",
             "oneshot_set", "shot", "status", "exit", "foo"}

\* Instants (ms since the daemon started) at which the clock is observed.
TimePoints == {0, 50000, 100000, 101000}

\* Values an oneshot_start_time[] slot may hold before the first shot: the
\* constructor never initialises the array.
InitStartTimes == {0, 100}

Min(a, b) == IF a < b THEN a ELSE b

Max(a, b) == IF a > b THEN a ELSE b

(* --------------------------- led_data_t -------------------------------- *)

LedData(avail, mode, bri, r, g, b, ton, toff) ==
    [is_available |-> avail, op_mode |-> mode, brightness |-> bri,
     color_r |-> r, color_g |-> g, color_b |-> b, t_on |-> ton, t_off |-> toff]

\* What get_status() may report for a light that is present.
ProbeStatuses ==
    { LedData(TRUE, "off", 1, 1, 0, 0, 0, 0),
      LedData(TRUE, "on", 2, 0, 1, 1, 500, 500) }

\* What get_status() reports for the first absent light.
UnavailableStatus == LedData(FALSE, "off", 0, 0, 0, 0, 0, 0)

\* Integer code of an op_mode_t value, as printed by status.
ModeCode(m) ==
    CASE m = "off" -> 0
      [] m = "on" -> 1
      [] m = "blink" -> 2
      [] m = "breath" -> 3

\* std::time(nullptr): whole seconds of the millisecond clock.
Time(t) == t \div MS_PER_SEC

(* ------------------------------ state ---------------------------------- *)

VARIABLES
    probed_leds,          \* number of lights found by the probe
    leds_pending,         \* [Leds -> led_data_t], desired state
    leds_applied,         \* [Leds -> led_data_t], state confirmed by hardware
    oneshot_enabled,      \* [Leds -> BOOLEAN]
    oneshot_start_time,   \* [Leds -> Int], seconds
    pending_lock,         \* "free", "engine" or "handler"
    now,                  \* wall clock, milliseconds
    epc,                  \* working thread: "sleep", "copy" or "apply"
    ei,                   \* working thread: light being reconciled
    leds_pending_copy,    \* working thread: snapshot of leds_pending
    op_mode,              \* working thread: effective mode of the last light reconciled
    calls,                \* hardware calls issued so far in the current tick
    hpc,                  \* handler: "accept","read","lock","locked"
    cmd,                  \* handler: the parsed line [led_id, command, args]
    time_diff,            \* handler: local of the shot branch
    hresult,              \* outcome of the last line: "none" while it runs, "ok",
                          \* "noop" (color_set 0 0 0), "error" or "exit"
    reply,                \* last status reply sent, <<>> if none
    ncmds,                \* lines read
    zeroed,               \* [Leds -> BOOLEAN]: last write to the light was brightness_set 0
    zeroed_copy,          \* value of zeroed when the current tick took its snapshot
    timing_set,           \* [Leds -> BOOLEAN]: a blink or oneshot_set was accepted
    held                  \* [Leds -> SUBSET views]: for a light the current tick has
                          \* still to reconcile, the views the store has held
                          \* since the tick's snapshot; {} otherwise

store == <<leds_pending, oneshot_enabled, oneshot_start_time>>

vars == <<probed_leds, leds_pending, leds_applied, oneshot_enabled,
          oneshot_start_time, pending_lock, now, epc, ei, leds_pending_copy,
          op_mode, calls, hpc, cmd, time_diff, hresult, reply, ncmds,
          zeroed, zeroed_copy, timing_set, held>>

NoCmd == [led_id |-> 0, command |-> "none", args |-> <<>>]

\* What the store holds for light i of the data the effective mode is
\* computed from.
View(i) ==
    <<leds_pending[i].op_mode, leds_pending[i].t_on, leds_pending[i].t_off,
      oneshot_enabled[i], oneshot_start_time[i]>>

(* ------------------------------- Init ---------------------------------- *)

\* The constructor's probe loop: lights below probed_leds hold their status in
\* both arrays, light probed_leds (if any) holds the unavailable status, and
\* the slots after it are never written.
ProbeResult(n, st) ==
    [i \in Leds |-> IF i = n THEN UnavailableStatus ELSE st]

Init ==
    /\ probed_leds \in 0 .. UGREEN_MAX_LEDS
    /\ \E st \in ProbeStatuses :
          /\ leds_pending = ProbeResult(probed_leds, st)
          /\ leds_applied = ProbeResult(probed_leds, st)
    /\ \E en \in BOOLEAN : oneshot_enabled = [i \in Leds |-> en]
    /\ \E t0 \in InitStartTimes : oneshot_start_time = [i \in Leds |-> t0]
    /\ pending_lock = "free"
    /\ now = 0
    /\ epc = "sleep"
    /\ ei = 0
    /\ leds_pending_copy = [i \in Leds |-> UnavailableStatus]
    /\ op_mode = "off"
    /\ calls = <<>>
    /\ hpc = "accept"
    /\ cmd = NoCmd
    /\ time_diff = 0
    /\ hresult = "none"
    /\ reply = <<>>
    /\ ncmds = 0
    /\ zeroed = [i \in Leds |-> FALSE]
    /\ zeroed_copy = [i \in Leds |-> FALSE]
    /\ timing_set = [i \in Leds |-> FALSE]
    /\ held = [i \in Leds |-> {}]

(* ------------------- apply_leds(): the working thread ------------------ *)

\* Lines 65-77: the mode a tick compares with the applied one.  `t` is the
\* value of std::time(nullptr), in seconds; t_on and t_off are milliseconds.
EffectiveMode(p, enabled, start, t) ==
    IF enabled
    THEN LET diff == t - start
             oneshot_cycle == p.t_on + p.t_off
         IN  IF diff < p.t_on THEN "on"
             ELSE IF diff < oneshot_cycle THEN "off"
             ELSE "on"
    ELSE p.op_mode

\* The hardware call the switch of lines 80-104 issues for pending mode m.
ModeCall(i, p) ==
    CASE p.op_mode = "off" -> [led |-> i, op |-> "set_onoff", args |-> <<FALSE>>]
      [] p.op_mode = "on" -> [led |-> i, op |-> "set_onoff", args |-> <<TRUE>>]
      [] p.op_mode = "blink" -> [led |-> i, op |-> "set_blink", args |-> <<p.t_on, p.t_off>>]
      [] p.op_mode = "breath" -> [led |-> i, op |-> "set_breath", args |-> <<p.t_on, p.t_off>>]

\* AppliedAfterMode as it would be if the success of set_onoff were not
\* recorded.
AppliedAfterModeBlinkOnly(a, p) ==
    IF p.op_mode \in {"blink", "breath"}
    THEN [a EXCEPT !.op_mode = p.op_mode, !.t_on = p.t_on, !.t_off = p.t_off]
    ELSE a

\* What a successful mode call copies into the applied record.
AppliedAfterMode(a, p) ==
    IF p.op_mode \in {"blink", "breath"}
    THEN [a EXCEPT !.op_mode = p.op_mode, !.t_on = p.t_on, !.t_off = p.t_off]
    ELSE [a EXCEPT !.op_mode = p.op_mode]

\* What a successful set_brightness copies into the applied record.
AppliedAfterBrightness(a, p) == [a EXCEPT !.brightness = p.brightness]

\* What a successful set_rgb copies into the applied record.
AppliedAfterRgb(a, p) ==
    [a EXCEPT !.color_r = p.color_r, !.color_g = p.color_g, !.color_b = p.color_b]

\* Lines 107 and 112-114: the tests that guard set_brightness and set_rgb.
BrightnessDiffers(a, p) == p.brightness # a.brightness

RgbDiffers(a, p) ==
    \/ p.color_r # a.color_r
    \/ p.color_g # a.color_g
    \/ p.color_b # a.color_b

Logged(c, ok) == [led |-> c.led, op |-> c.op, args |-> c.args, ok |-> ok]

\* Line 51: the working thread wakes up and takes pending_lock.
EngineLock ==
    /\ epc = "sleep"
    /\ pending_lock = "free"
    /\ pending_lock' = "engine"
    /\ epc' = "copy"
    /\ calls' = <<>>
    /\ UNCHANGED <<probed_leds, leds_pending, leds_applied, oneshot_enabled,
                   oneshot_start_time, now, ei, leds_pending_copy, op_mode,
                   hpc, cmd, time_diff, hresult, reply, ncmds, zeroed,
                   zeroed_copy, timing_set, held>>

\* EngineCopy as it would be if the lock_guard of line 51 lived to the end of
\* apply_leds().
EngineCopyKeepingLock ==
    /\ epc = "copy"
    /\ leds_pending_copy' =
          [i \in Leds |-> IF i < probed_leds THEN leds_pending[i]
                          ELSE leds_pending_copy[i]]
    /\ zeroed_copy' = zeroed
    /\ zeroed' = [i \in Leds |-> FALSE]
    /\ held' = [i \in Leds |-> IF i < probed_leds THEN {View(i)} ELSE {}]
    /\ pending_lock' = IF probed_leds > 0 THEN "engine" ELSE "free"
    /\ ei' = 0
    /\ epc' = IF probed_leds > 0 THEN "apply" ELSE "sleep"
    /\ UNCHANGED <<probed_leds, leds_pending, leds_applied, oneshot_enabled,
                   oneshot_start_time, now, op_mode, calls,
                   hpc, cmd, time_diff, hresult, reply, ncmds, timing_set>>

\* Lines 52-53: copy the probed part of leds_pending, release the lock.
EngineCopy ==
    /\ epc = "copy"
    /\ leds_pending_copy' =
          [i \in Leds |-> IF i < probed_leds THEN leds_pending[i]
                          ELSE leds_pending_copy[i]]
    /\ zeroed_copy' = zeroed
    /\ zeroed' = [i \in Leds |-> FALSE]
    /\ held' = [i \in Leds |-> IF i < probed_leds THEN {View(i)} ELSE {}]
    /\ pending_lock' = "free"
    /\ ei' = 0
    /\ epc' = IF probed_leds > 0 THEN "apply" ELSE "sleep"
    /\ UNCHANGED <<probed_leds, leds_pending, leds_applied, oneshot_enabled,
                   oneshot_start_time, now, op_mode, calls,
                   hpc, cmd, time_diff, hresult, reply, ncmds, timing_set>>

\* The hardware calls of one apply_leds(led_id, led_applied, led_pending),
\* lines 79-120, in the order they are issued; ok[k] is the result of the
\* k-th possible call (mode, brightness, rgb).  m is the effective mode.
LedCalls(i, a, p, m, ok) ==
    LET modeCall == IF m # a.op_mode THEN <<Logged(ModeCall(i, p), ok[1])>> ELSE <<>>
        a1 == IF m # a.op_mode /\ ok[1] THEN AppliedAfterMode(a, p) ELSE a
        returned == m # a.op_mode /\ p.op_mode = "off"
        briCall == IF ~returned /\ BrightnessDiffers(a1, p)
                   THEN <<[led |-> i, op |-> "set_brightness",
                           args |-> <<p.brightness>>, ok |-> ok[2]]>>
                   ELSE <<>>
        rgbCall == IF ~returned /\ RgbDiffers(a1, p)
                   THEN <<[led |-> i, op |-> "set_rgb",
                           args |-> <<p.color_r, p.color_g, p.color_b>>, ok |-> ok[3]]>>
                   ELSE <<>>
    IN  modeCall \o briCall \o rgbCall

\* AfterCall as it would be if the result of the call were not looked at.
AfterCallIgnoringResult(a, p, c) ==
    IF c.op = "set_brightness" THEN AppliedAfterBrightness(a, p)
    ELSE IF c.op = "set_rgb" THEN AppliedAfterRgb(a, p)
    ELSE AppliedAfterMode(a, p)

\* The applied record after one logged call: a successful call copies the
\* fields it set from the pending snapshot, a failed one copies nothing.
AfterCall(a, p, c) ==
    IF ~c.ok THEN a
    ELSE IF c.op = "set_brightness" THEN AppliedAfterBrightness(a, p)
    ELSE IF c.op = "set_rgb" THEN AppliedAfterRgb(a, p)
    ELSE AppliedAfterMode(a, p)

RECURSIVE AfterCalls(_, _, _)
AfterCalls(a, p, cs) ==
    IF cs = <<>> THEN a ELSE AfterCalls(AfterCall(a, p, Head(cs)), p, Tail(cs))

\* ApplyLed as it would be if line 67 read the oneshot flag of light 0 for
\* every light.
ApplyLedReadingFirstFlag ==
    /\ epc = "apply"
    /\ \E ok \in [1 .. 3 -> BOOLEAN] :
         LET p == leds_pending_copy[ei]
             a == leds_applied[ei]
             m == EffectiveMode(p, oneshot_enabled[0], oneshot_start_time[ei],
                                Time(now))
             cs == LedCalls(ei, a, p, m, ok)
         IN  /\ op_mode' = m
             /\ calls' = calls \o cs
             /\ leds_applied' = [leds_applied EXCEPT ![ei] = AfterCalls(a, p, cs)]
    /\ held' = [held EXCEPT ![ei] = {}]
    /\ IF ei + 1 < probed_leds
       THEN /\ ei' = ei + 1
            /\ epc' = "apply"
       ELSE /\ ei' = 0
            /\ epc' = "sleep"
    /\ UNCHANGED <<probed_leds, leds_pending, oneshot_enabled, oneshot_start_time,
                   pending_lock, now, leds_pending_copy,
                   hpc, cmd, time_diff, hresult, reply, ncmds, zeroed,
                   zeroed_copy, timing_set>>

\* Lines 60-121 for light ei, then the next iteration of the loop of line 55:
\* compute the effective mode from the snapshot and from oneshot_enabled and
\* oneshot_start_time as they are now, issue the calls, copy what succeeded.
ApplyLed ==
    /\ epc = "apply"
    /\ \E ok \in [1 .. 3 -> BOOLEAN] :
         LET p == leds_pending_copy[ei]
             a == leds_applied[ei]
             m == EffectiveMode(p, oneshot_enabled[ei], oneshot_start_time[ei],
                                Time(now))
             cs == LedCalls(ei, a, p, m, ok)
         IN  /\ op_mode' = m
             /\ calls' = calls \o cs
             /\ leds_applied' = [leds_applied EXCEPT ![ei] = AfterCalls(a, p, cs)]
    /\ held' = [held EXCEPT ![ei] = {}]
    /\ IF ei + 1 < probed_leds
       THEN /\ ei' = ei + 1
            /\ epc' = "apply"
       ELSE /\ ei' = 0
            /\ epc' = "sleep"
    /\ UNCHANGED <<probed_leds, leds_pending, oneshot_enabled, oneshot_start_time,
                   pending_lock, now, leds_pending_copy,
                   hpc, cmd, time_diff, hresult, reply, ncmds, zeroed,
                   zeroed_copy, timing_set>>

\* Time passes (the 50 ms sleep of line 173, blocking reads, scheduling).
Advance ==
    /\ \E t \in TimePoints :
          /\ t > now
          /\ now' = t
    /\ UNCHANGED <<probed_leds, leds_pending, leds_applied, oneshot_enabled,
                   oneshot_start_time, pending_lock, epc, ei, leds_pending_copy,
                   op_mode, calls, hpc, cmd, time_diff, hresult, reply,
                   ncmds, zeroed, zeroed_copy, timing_set, held>>

(* ---------------- accept_and_process(): the command handler ------------ *)

\* The arguments a line of command c carries.
ArgsOf(c) ==
    CASE c = "brightness_set" -> {<<l>> : l \in Levels}
      [] c = "color_set" -> Colors
      [] c = "blink" -> BlinkArgs
      [] c = "oneshot_set" -> TPairs
      [] OTHER -> {<<>>}

\* Line 215: the light id check.
ValidLedId(id) == ~(id < 0 \/ id >= UGREEN_MAX_LEDS)

\* BrightnessSet as it would be if a level above 0 always switched to on.
BrightnessSetForcingOn(p, level) ==
    IF level = 0
    THEN [p EXCEPT !.op_mode = "off"]
    ELSE [p EXCEPT !.op_mode = "on", !.brightness = level]

\* Lines 228-235: brightness_set on a pending record.
BrightnessSet(p, level) ==
    IF level = 0
    THEN [p EXCEPT !.op_mode = "off"]
    ELSE [p EXCEPT !.op_mode = IF p.op_mode = "off" THEN "on" ELSE p.op_mode,
                   !.brightness = level]

\* ColorSetWrites as it would be without the test of line 241.
ColorSetWritesAlways(c) == Len(c) = 3

\* Line 241: color_set touches the store only for a triple that is not all zero.
ColorSetWrites(c) == c[1] # 0 \/ c[2] # 0 \/ c[3] # 0

\* Lines 244-246: color_set on a pending record.
ColorSet(p, c) == [p EXCEPT !.color_r = c[1], !.color_g = c[2], !.color_b = c[3]]

\* Clamp as it would be without the lower limit.
ClampWithoutMin(t) == Min(T_MAX, t)

\* std::min(0x7fff, std::max(50, t)) of lines 270-271 and 278-279.
Clamp(t) == Min(T_MAX, Max(T_MIN, t))

\* Lines 261-271: blink on a pending record; a record for a valid sub-type.
BlinkTypeValid(ty) == ty = "blink" \/ ty = "breath"

BlinkSet(p, ty, ton, toff) ==
    [p EXCEPT !.op_mode = ty, !.t_on = Clamp(ton), !.t_off = Clamp(toff)]

\* Lines 278-279: oneshot_set on a pending record.
OneshotSet(p, ton, toff) == [p EXCEPT !.t_on = Clamp(ton), !.t_off = Clamp(toff)]

\* Lines 287-290: the start time a shot leaves behind.  `diff` was computed
\* before the lock was taken, `t` is std::time(nullptr) read under the lock.
ShotStart(start, enabled, p, diff, t) ==
    LET oneshot_cycle == p.t_on + p.t_off
    IN  IF diff > oneshot_cycle \/ ~enabled THEN t ELSE start

\* StatusReply as it would be if status reported the applied record.
StatusReplyFromApplied(id, p, probed) ==
    LET a == leds_applied[id]
    IN  <<IF id < probed THEN 1 ELSE 0, ModeCode(a.op_mode), a.brightness,
          a.color_r, a.color_g, a.color_b, a.t_on, a.t_off>>

\* Lines 300-307: the reply line of status, as its eight integers.
StatusReply(id, p, probed) ==
    <<IF id < probed THEN 1 ELSE 0, ModeCode(p.op_mode), p.brightness,
      p.color_r, p.color_g, p.color_b, p.t_on, p.t_off>>

\* Line 182: main()'s loop accepts the next connection.
HandlerAccept ==
    /\ hpc = "accept"
    /\ ncmds < MaxCmds
    /\ hpc' = "read"
    /\ UNCHANGED <<probed_leds, leds_pending, leds_applied, oneshot_enabled,
                   oneshot_start_time, pending_lock, now, epc, ei,
                   leds_pending_copy, op_mode, calls, cmd, time_diff,
                   hresult, reply, ncmds, zeroed, zeroed_copy, timing_set, held>>

\* Lines 202-218 and the dispatch on the command word: read one line, reject a
\* bad id or an unknown command, finish the commands that take no lock, and
\* otherwise head for the lock.  shot reads the clock and its start time here.
HandlerRead ==
    /\ hpc = "read"
    /\ ncmds < MaxCmds
    /\ \E id \in LedIds, c \in Commands :
         \E a \in (IF ValidLedId(id) THEN ArgsOf(c) ELSE {<<>>}) :
            LET rejected == ~ValidLedId(id) \/ c = "foo"
                noop == ~rejected /\ c = "color_set" /\ ~ColorSetWrites(a)
                locking == ~rejected /\ c # "exit" /\ ~noop
            IN  /\ cmd' = [led_id |-> id, command |-> IF ValidLedId(id) THEN c ELSE "",
                           args |-> IF locking \/ noop THEN a ELSE <<>>]
                /\ hresult' = IF rejected THEN "error"
                              ELSE IF c = "exit" THEN "exit"
                              ELSE IF noop THEN "noop"
                              ELSE "none"
                /\ hpc' = IF rejected \/ c = "exit" THEN "accept"
                          ELSE IF noop THEN "read"
                          ELSE "lock"
                /\ time_diff' = IF locking /\ c = "shot"
                                THEN Time(now) - oneshot_start_time[id]
                                ELSE time_diff
    /\ ncmds' = ncmds + 1
    /\ reply' = <<>>
    /\ UNCHANGED <<probed_leds, leds_pending, leds_applied, oneshot_enabled,
                   oneshot_start_time, pending_lock, now, epc, ei,
                   leds_pending_copy, op_mode, calls, zeroed,
                   zeroed_copy, timing_set, held>>

\* std::lock_guard<std::mutex> lock(pending_lock) of the dispatched branch.
HandlerLock ==
    /\ hpc = "lock"
    /\ pending_lock = "free"
    /\ pending_lock' = "handler"
    /\ hpc' = "locked"
    /\ UNCHANGED <<probed_leds, leds_pending, leds_applied, oneshot_enabled,
                   oneshot_start_time, now, epc, ei, leds_pending_copy, op_mode,
                   calls, cmd, time_diff, hresult, reply, ncmds, zeroed,
                   zeroed_copy, timing_set, held>>

\* What every locked branch does besides its own writes: the lock_guard goes
\* out of scope and the loop reads the next line.
Done(result) ==
    /\ pending_lock' = "free"
    /\ hresult' = result
    /\ hpc' = IF result = "ok" THEN "read" ELSE "accept"
    /\ cmd' = [cmd EXCEPT !.args = <<>>]
    /\ time_diff' = 0
    /\ UNCHANGED <<probed_leds, leds_applied, now, epc, ei, leds_pending_copy,
                   op_mode, calls, ncmds, zeroed_copy>>

Locked(c) == hpc = "locked" /\ cmd.command = c

\* Bookkeeping of a locked branch: the view the store holds once the branch
\* has run, for the lights the current tick has still to reconcile.
Held ==
    held' = [i \in Leds |-> IF held[i] # {} THEN held[i] \cup {View(i)'} ELSE {}]

\* Lines 226-235.
DoBrightnessSet ==
    /\ Locked("brightness_set")
    /\ leds_pending' = [leds_pending EXCEPT
           ![cmd.led_id] = BrightnessSet(@, cmd.args[1])]
    /\ zeroed' = [zeroed EXCEPT ![cmd.led_id] = (cmd.args[1] = 0)]
    /\ Done("ok")
    /\ UNCHANGED <<oneshot_enabled, oneshot_start_time, reply, timing_set>>
    /\ Held

\* Lines 242-246.
DoColorSet ==
    /\ Locked("color_set")
    /\ leds_pending' = [leds_pending EXCEPT ![cmd.led_id] = ColorSet(@, cmd.args)]
    /\ zeroed' = [zeroed EXCEPT ![cmd.led_id] = FALSE]
    /\ Done("ok")
    /\ UNCHANGED <<oneshot_enabled, oneshot_start_time, reply, timing_set>>
    /\ Held

\* Lines 249-250.
DoOn ==
    /\ Locked("on")
    /\ leds_pending' = [leds_pending EXCEPT ![cmd.led_id].op_mode = "on"]
    /\ zeroed' = [zeroed EXCEPT ![cmd.led_id] = FALSE]
    /\ Done("ok")
    /\ UNCHANGED <<oneshot_enabled, oneshot_start_time, reply, timing_set>>
    /\ Held

\* Lines 252-253.
DoOff ==
    /\ Locked("off")
    /\ leds_pending' = [leds_pending EXCEPT ![cmd.led_id].op_mode = "off"]
    /\ zeroed' = [zeroed EXCEPT ![cmd.led_id] = FALSE]
    /\ Done("ok")
    /\ UNCHANGED <<oneshot_enabled, oneshot_start_time, reply, timing_set>>
    /\ Held

\* DoBlink as it would be if the timing were stored before the sub-type is
\* checked.
DoBlinkStoringFirst ==
    /\ Locked("blink")
    /\ IF BlinkTypeValid(cmd.args[1])
       THEN /\ leds_pending' = [leds_pending EXCEPT
                  ![cmd.led_id] = BlinkSet(@, cmd.args[1], cmd.args[2], cmd.args[3])]
            /\ zeroed' = [zeroed EXCEPT ![cmd.led_id] = FALSE]
            /\ timing_set' = [timing_set EXCEPT ![cmd.led_id] = TRUE]
            /\ Done("ok")
       ELSE /\ leds_pending' = [leds_pending EXCEPT
                  ![cmd.led_id] = OneshotSet(@, cmd.args[2], cmd.args[3])]
            /\ UNCHANGED <<zeroed, timing_set>>
            /\ Done("error")
    /\ UNCHANGED <<oneshot_enabled, oneshot_start_time, reply>>
    /\ Held

\* Lines 259-271: an invalid sub-type returns -1 before anything is stored.
DoBlink ==
    /\ Locked("blink")
    /\ IF BlinkTypeValid(cmd.args[1])
       THEN /\ leds_pending' = [leds_pending EXCEPT
                  ![cmd.led_id] = BlinkSet(@, cmd.args[1], cmd.args[2], cmd.args[3])]
            /\ zeroed' = [zeroed EXCEPT ![cmd.led_id] = FALSE]
            /\ timing_set' = [timing_set EXCEPT ![cmd.led_id] = TRUE]
            /\ Done("ok")
       ELSE /\ UNCHANGED <<leds_pending, zeroed, timing_set>>
            /\ Done("error")
    /\ UNCHANGED <<oneshot_enabled, oneshot_start_time, reply>>
    /\ Held

\* Lines 276-280.
DoOneshotSet ==
    /\ Locked("oneshot_set")
    /\ leds_pending' = [leds_pending EXCEPT
           ![cmd.led_id] = OneshotSet(@, cmd.args[1], cmd.args[2])]
    /\ oneshot_enabled' = [oneshot_enabled EXCEPT ![cmd.led_id] = TRUE]
    /\ zeroed' = [zeroed EXCEPT ![cmd.led_id] = FALSE]
    /\ timing_set' = [timing_set EXCEPT ![cmd.led_id] = TRUE]
    /\ Done("ok")
    /\ UNCHANGED <<oneshot_start_time, reply>>
    /\ Held

\* Lines 285-290.
DoShot ==
    /\ Locked("shot")
    /\ oneshot_start_time' = [oneshot_start_time EXCEPT
           ![cmd.led_id] = ShotStart(@, oneshot_enabled[cmd.led_id],
                                     leds_pending[cmd.led_id], time_diff, Time(now))]
    /\ zeroed' = [zeroed EXCEPT ![cmd.led_id] = FALSE]
    /\ Done("ok")
    /\ UNCHANGED <<leds_pending, oneshot_enabled, reply, timing_set>>
    /\ Held

\* Lines 292-309: copy the pending record under the lock, then send it.
DoStatus ==
    /\ Locked("status")
    /\ reply' = StatusReply(cmd.led_id, leds_pending[cmd.led_id], probed_leds)
    /\ Done("ok")
    /\ UNCHANGED <<leds_pending, oneshot_enabled, oneshot_start_time, zeroed,
                   timing_set>>
    /\ Held

(* --------------------------- specification ----------------------------- *)

Next ==
    \/ EngineLock
    \/ EngineCopy
    \/ ApplyLed
    \/ Advance
    \/ HandlerAccept
    \/ HandlerRead
    \/ HandlerLock
    \/ DoBrightnessSet
    \/ DoColorSet
    \/ DoOn
    \/ DoOff
    \/ DoBlink
    \/ DoOneshotSet
    \/ DoShot
    \/ DoStatus

Spec == Init /\ [][Next]_vars

\* The hardware calls a step has added to the log of the current tick.
NewCalls == SubSeq(calls', Len(calls) + 1, Len(calls'))

\* A reconciliation of light i in which every hardware call made returns 0.
ApplySucceeds(i) ==
    /\ ei = i
    /\ ApplyLed
    /\ \A k \in 1 .. Len(NewCalls) : NewCalls[k].ok

\* The body of a locked branch, up to the end of its lock_guard.
HandlerLocked ==
    \/ DoBrightnessSet
    \/ DoColorSet
    \/ DoOn
    \/ DoOff
    \/ DoBlink
    \/ DoOneshotSet
    \/ DoShot
    \/ DoStatus

\* The working thread keeps running: it wakes up every 50 ms (line 173),
\* gets the mutex once it is free, copies and reconciles; a handler that
\* holds the mutex runs to the end of its branch and releases it.  Hardware
\* calls may fail any number of times, but for each light the reconciliation
\* succeeds again and again.
Fairness ==
    /\ WF_vars(EngineLock)
    /\ WF_vars(EngineCopy)
    /\ WF_vars(HandlerLocked)
    /\ \A i \in Leds : SF_vars(ApplySucceeds(i))

\* The daemon on a device whose probe finds one light, with the oneshot
\* arrays starting out clear.
FairInit ==
    /\ Init
    /\ probed_leds = 1
    /\ \A i \in Leds : ~oneshot_enabled[i] /\ oneshot_start_time[i] = 0

FairSpec == FairInit /\ [][Next]_vars /\ Fairness

TypeOK ==
    /\ probed_leds \in 0 .. UGREEN_MAX_LEDS
    /\ pending_lock \in {"free", "engine", "handler"}
    /\ epc \in {"sleep", "copy", "apply"}
    /\ hpc \in {"accept", "read", "lock", "locked"}
    /\ \A i \in Leds : leds_pending[i].op_mode \in OpModes
    /\ \A i \in Leds : leds_applied[i].op_mode \in OpModes

(* ------------------------------ claims --------------------------------- *)

\* Light i has been reconciled in the current tick.
LedDone(i) ==
    /\ i < probed_leds
    /\ \/ epc = "sleep"
       \/ epc = "apply" /\ ei > i

\* A step of the handler that finishes the line it is working on.
LineEnds ==
    \/ hpc = "read" /\ ncmds' = ncmds + 1 /\ hpc' # "lock"
    \/ hpc = "locked" /\ hpc' # "locked"

\* The effective mode of a pulse as the spec states it: elapsed, t_on and
\* t_off all in milliseconds.
PulseMode(p, elapsed) ==
    IF elapsed < p.t_on THEN "on"
    ELSE IF elapsed < p.t_on + p.t_off THEN "off"
    ELSE "on"

\* Milliseconds since the instant oneshot_start_time[i] names.
ElapsedMs(i) == now - oneshot_start_time[i] * MS_PER_SEC

\* C1: when a tick's snapshot was taken right after a brightness_set 0 on a
\* probed light, and every hardware call the tick made for that light
\* succeeded, the tick leaves applied.mode = off and has issued no
\* set_brightness and no set_rgb for the light.  (Stated for the lights
\* without oneshot only: the claim fails even there.)
C1_BrightnessZeroTurnsOff ==
    \A i \in Leds :
        ( /\ LedDone(i)
          /\ zeroed_copy[i]
          /\ ~oneshot_enabled[i]
          /\ \A k \in 1 .. Len(calls) : calls[k].led = i => calls[k].ok )
        => /\ leds_applied[i].op_mode = "off"
           /\ \A k \in 1 .. Len(calls) :
                 calls[k].led = i => calls[k].op \notin {"set_brightness", "set_rgb"}

\* C2: for a light with oneshot enabled, the effective mode a tick computes is
\* the pulse mode of the elapsed milliseconds since start_time (on before
\* t_on, off until t_on + t_off, on afterwards), and the tick leaves
\* start_time alone.  (Stated for the lights whose pulse timing a command has
\* set.)
C2_EffectiveModeFollowsElapsedMs ==
    [][ ApplyLed =>
          /\ (oneshot_enabled[ei] /\ timing_set[ei]) =>
                op_mode' = PulseMode(leds_pending_copy[ei], ElapsedMs(ei))
          /\ UNCHANGED oneshot_start_time ]_vars

\* C3: start_time changes only in a shot for that light, and a shot sets it
\* to the current time exactly when oneshot is not enabled or more than
\* t_on + t_off milliseconds have elapsed since start_time; otherwise it
\* leaves it.  (The second part is stated for probed lights whose pulse
\* timing a command has set, and for shots during which the clock did not
\* move between the early read of line 283 and the write.)
C3_ShotRearmsAfterCycle ==
    [][ /\ \A i \in Leds :
             oneshot_start_time'[i] # oneshot_start_time[i]
                => Locked("shot") /\ cmd.led_id = i
        /\ ( /\ Locked("shot")
             /\ LineEnds
             /\ cmd.led_id < probed_leds
             /\ timing_set[cmd.led_id]
             /\ time_diff = Time(now) - oneshot_start_time[cmd.led_id] )
           => LET i == cmd.led_id
                  cycle == leds_pending[i].t_on + leds_pending[i].t_off
              IN  oneshot_start_time'[i] =
                     IF ~oneshot_enabled[i] \/ ElapsedMs(i) > cycle
                     THEN Time(now)
                     ELSE oneshot_start_time[i] ]_vars

\* C4: a status reply is the availability flag (1 iff the id is below
\* probed_leds) followed by the pending record of the light as it is now:
\* mode code, brightness, r, g, b, t_on, t_off.
C4_StatusReportsPending ==
    reply # <<>> =>
        LET p == leds_pending[cmd.led_id]
        IN  reply = << IF cmd.led_id < probed_leds THEN 1 ELSE 0,
                       ModeCode(p.op_mode), p.brightness,
                       p.color_r, p.color_g, p.color_b, p.t_on, p.t_off >>

\* C4 witness: a reply was sent for a probed light whose applied record
\* differs from its pending record.
C4_Witness ==
    /\ reply # <<>>
    /\ cmd.led_id < probed_leds
    /\ leds_applied[cmd.led_id].op_mode # leds_pending[cmd.led_id].op_mode
    /\ leds_applied[cmd.led_id].brightness # leds_pending[cmd.led_id].brightness

\* C5: a line with a light id outside [0, UGREEN_MAX_LEDS), with an unknown
\* command, or a blink with a sub-type other than blink and breath, ends the
\* session with an error; no step of such a line changes a pending record, an
\* oneshot flag or a start time, and the handler does not hold the lock when
\* the line ends.
C5_RejectedLineLeavesStore ==
    [][ /\ ( /\ hpc = "read"
             /\ ncmds' = ncmds + 1
             /\ cmd'.led_id \notin Leds \/ cmd'.command = "foo" )
           => hresult' = "error"
        /\ ( /\ Locked("blink")
             /\ LineEnds
             /\ cmd.args[1] \notin {"blink", "breath"} )
           => hresult' = "error"
        /\ (LineEnds /\ hresult' = "error")
           => /\ UNCHANGED store
              /\ pending_lock' # "handler"
              /\ hpc' = "accept"
        /\ hpc' \in {"lock", "locked"} => UNCHANGED store ]_vars

\* C5 witness: a blink with a bad sub-type has just been rejected.
C5_Witness ==
    /\ hresult = "error"
    /\ hpc = "accept"
    /\ cmd.command = "blink"
    /\ cmd.led_id \in Leds

\* A step in which the handler runs the locked branch of command c.
Runs(c) == Locked(c) /\ LineEnds

\* Every field of the records of light i but those named in `fields` is the
\* same in r and q.
SameBut(r, q, fields) ==
    \A f \in DOMAIN r : f \notin fields => r[f] = q[f]

\* C6: brightness_set 0 sets pending.mode to off and leaves the brightness;
\* brightness_set with a level above 0 stores the level and turns an off
\* light on, keeping a pending on, blink or breath mode; colour, t_on, t_off,
\* the oneshot fields and the other lights never change.
C6_BrightnessSet ==
    [][ Runs("brightness_set") =>
          LET i == cmd.led_id
              level == cmd.args[1]
              p == leds_pending[i]
              q == leds_pending'[i]
          IN  /\ level = 0 => q.op_mode = "off" /\ q.brightness = p.brightness
              /\ level > 0 =>
                    /\ q.brightness = level
                    /\ q.op_mode = IF p.op_mode = "off" THEN "on" ELSE p.op_mode
              /\ SameBut(p, q, {"op_mode", "brightness"})
              /\ \A j \in Leds \ {i} : leds_pending'[j] = leds_pending[j]
              /\ UNCHANGED <<oneshot_enabled, oneshot_start_time>> ]_vars

\* C6 witness: a brightness_set with a level above 0 was accepted for a light
\* whose pending mode is blink or breath, and the mode is still that.
C6_Witness ==
    /\ cmd.command = "brightness_set"
    /\ hresult = "ok"
    /\ cmd.led_id \in Leds
    /\ ~zeroed[cmd.led_id]
    /\ leds_pending[cmd.led_id].op_mode \in {"blink", "breath"}

\* C7: no step of a color_set 0 0 0 line changes a pending record, an oneshot
\* flag or a start time, whereas a color_set with a non-zero channel stores
\* its three arguments in the three pending channels and nothing else.
C7_ColorSet ==
    [][ /\ ( /\ hpc = "read"
             /\ ncmds' = ncmds + 1
             /\ cmd'.command = "color_set"
             /\ cmd'.args = <<0, 0, 0>> )
           => UNCHANGED <<store, leds_applied>>
        /\ ( /\ hpc \in {"lock", "locked"}
             /\ hpc' # hpc
             /\ cmd.command = "color_set"
             /\ cmd.args = <<0, 0, 0>> )
           => UNCHANGED <<store, leds_applied>>
        /\ ( /\ Runs("color_set")
             /\ cmd.args # <<0, 0, 0>> )
           => LET i == cmd.led_id
                  p == leds_pending[i]
                  q == leds_pending'[i]
              IN  /\ <<q.color_r, q.color_g, q.color_b>> = cmd.args
                  /\ SameBut(p, q, {"color_r", "color_g", "color_b"})
                  /\ \A j \in Leds \ {i} : leds_pending'[j] = leds_pending[j]
                  /\ UNCHANGED <<oneshot_enabled, oneshot_start_time>> ]_vars

\* C7 witness: a color_set 0 0 0 line has been handled for a light whose
\* pending colour is not black.
C7_Witness ==
    /\ cmd.command = "color_set"
    /\ cmd.args = <<0, 0, 0>>
    /\ hresult = "noop"
    /\ leds_pending[cmd.led_id].color_r # 0

\* min(32767, max(50, t)), written out.
Clamped(t) == IF t < 50 THEN 50 ELSE IF t > 32767 THEN 32767 ELSE t

\* C8: once a blink or oneshot_set was accepted for a light, its pending t_on
\* and t_off lie in [50, 32767]; each such command stores the clamped
\* arguments, and no other step changes a pending t_on or t_off.
C8_TimingClamped ==
    /\ [](\A i \in Leds : timing_set[i] =>
             /\ leds_pending[i].t_on \in 50 .. 32767
             /\ leds_pending[i].t_off \in 50 .. 32767)
    /\ [][ /\ (Runs("blink") /\ hresult' = "ok") =>
                /\ leds_pending'[cmd.led_id].t_on = Clamped(cmd.args[2])
                /\ leds_pending'[cmd.led_id].t_off = Clamped(cmd.args[3])
           /\ Runs("oneshot_set") =>
                /\ leds_pending'[cmd.led_id].t_on = Clamped(cmd.args[1])
                /\ leds_pending'[cmd.led_id].t_off = Clamped(cmd.args[2])
           /\ \A i \in Leds :
                ( \/ leds_pending'[i].t_on # leds_pending[i].t_on
                  \/ leds_pending'[i].t_off # leds_pending[i].t_off )
                => /\ Runs("blink") \/ Runs("oneshot_set")
                   /\ cmd.led_id = i ]_vars

\* C8 witness: blink blink 10 10 was accepted and the light holds 50 and 50.
C8_Witness ==
    \E i \in Leds :
        /\ timing_set[i]
        /\ leds_pending[i].op_mode = "blink"
        /\ leds_pending[i].t_on = 50
        /\ leds_pending[i].t_off = 50

\* The field group a hardware call writes, set to the values passed to it.
GroupWritten(a, c) ==
    CASE c.op = "set_onoff" ->
           [a EXCEPT !.op_mode = IF c.args[1] THEN "on" ELSE "off"]
      [] c.op = "set_blink" ->
           [a EXCEPT !.op_mode = "blink", !.t_on = c.args[1], !.t_off = c.args[2]]
      [] c.op = "set_breath" ->
           [a EXCEPT !.op_mode = "breath", !.t_on = c.args[1], !.t_off = c.args[2]]
      [] c.op = "set_brightness" ->
           [a EXCEPT !.brightness = c.args[1]]
      [] c.op = "set_rgb" ->
           [a EXCEPT !.color_r = c.args[1], !.color_g = c.args[2], !.color_b = c.args[3]]

RECURSIVE GroupsWritten(_, _)
GroupsWritten(a, cs) ==
    IF cs = <<>> THEN a
    ELSE GroupsWritten(IF Head(cs).ok THEN GroupWritten(a, Head(cs)) ELSE a, Tail(cs))

\* C9: the applied records change only in a reconciliation step, only for the
\* light being reconciled, and exactly by the field groups of the calls that
\* succeeded in that step, set to the values passed to those calls; a failed
\* call changes nothing.
C9_AppliedFollowsSuccessfulCalls ==
    [][ /\ leds_applied' # leds_applied => ApplyLed
        /\ ApplyLed =>
             LET new == SubSeq(calls', Len(calls) + 1, Len(calls'))
             IN  /\ \A k \in 1 .. Len(new) : new[k].led = ei
                 /\ leds_applied'[ei] = GroupsWritten(leds_applied[ei], new)
                 /\ \A j \in Leds \ {ei} : leds_applied'[j] = leds_applied[j] ]_vars

\* C9 witness: in the current tick a call for a light failed, another one for
\* the same light succeeded, and the applied record still differs from the
\* snapshot in the group of the failed call.
C9_Witness ==
    \E k, l \in 1 .. Len(calls) :
        /\ calls[k].led = calls[l].led
        /\ calls[k].op = "set_brightness"
        /\ ~calls[k].ok
        /\ calls[l].ok
        /\ leds_applied[calls[k].led].brightness
              # leds_pending_copy[calls[k].led].brightness

\* A step of the working thread that reads or writes the store.
EngineTouchesStore == EngineCopy \/ ApplyLed

\* A step of the handler that reads or writes the store: every locked
\* branch.  (The read of oneshot_start_time of line 283, which comes before
\* the lock, is left out: the handler is the only writer of that array.)
HandlerTouchesStore == hpc = "locked" /\ LineEnds

\* C10: every step that reads or writes a pending record, an oneshot flag or
\* a start time is taken by a thread that holds pending_lock.
C10_StoreAccessUnderLock ==
    [][ /\ EngineTouchesStore => pending_lock = "engine"
        /\ HandlerTouchesStore => pending_lock = "handler" ]_vars

\* C11: the thread that holds pending_lock is never in a hardware call.  The
\* working thread holds the lock exactly while it copies the pending array
\* and has released it before the first hardware call of the tick; only the
\* working thread's reconciliation step calls the hardware (the handler's
\* steps add no call and change no applied record); and a handler that waits
\* for the lock while the working thread is making its hardware calls finds
\* the lock free.
C11_NoHardwareCallUnderLock ==
    /\ [](pending_lock = "engine" <=> epc = "copy")
    /\ [](pending_lock = "handler" <=> hpc = "locked")
    /\ []((hpc = "lock" /\ epc = "apply") => pending_lock = "free")
    /\ [][ /\ (NewCalls # <<>> \/ leds_applied' # leds_applied) =>
                /\ ApplyLed
                /\ pending_lock # "engine"
                /\ pending_lock' # "engine"
           /\ (hpc' # hpc \/ ncmds' # ncmds) =>
                UNCHANGED <<calls, leds_applied>> ]_vars

\* C11 witness: the handler holds the lock in the middle of a tick that has
\* already made a hardware call and has another light to reconcile.
C11_Witness ==
    /\ hpc = "locked"
    /\ epc = "apply"
    /\ calls # <<>>

\* C13: no step changes the pending record, the applied record, the oneshot
\* flag or the start time of a light at or beyond probed_leds, and no
\* hardware call is issued for such a light.
C13_UnprobedUntouched ==
    [][ \A i \in Leds :
          i >= probed_leds =>
             /\ leds_pending'[i] = leds_pending[i]
             /\ leds_applied'[i] = leds_applied[i]
             /\ oneshot_enabled'[i] = oneshot_enabled[i]
             /\ oneshot_start_time'[i] = oneshot_start_time[i]
             /\ \A k \in 1 .. Len(calls') : calls'[k].led # i ]_vars

\* The oneshot flag of light i is set and that of another light is clear.
\* The flags start out equal (whatever the uninitialised array holds), so the
\* flag of light i was set by an oneshot_set.
SetByOneshotSet(i) ==
    /\ oneshot_enabled[i]
    /\ \E j \in Leds : ~oneshot_enabled[j]

\* C15: for a light with oneshot enabled, when a tick finds the effective
\* mode different from applied.mode and the hardware call it makes succeeds,
\* the call drives the light to the effective mode: a turn-off call when the
\* effective mode is off, no turn-off call when it is on; and the tick does
\* not modify pending.  (Stated for the lights whose flag an oneshot_set has
\* set, and for the ticks whose snapshot of the light is still current.)
C15_EffectiveModeApplied ==
    [][ /\ ( /\ ApplyLed
             /\ SetByOneshotSet(ei)
             /\ leds_pending_copy[ei] = leds_pending[ei]
             /\ op_mode' # leds_applied[ei].op_mode
             /\ NewCalls # <<>>
             /\ NewCalls[1].ok )
           => LET c == NewCalls[1]
                  turnOff == c.op = "set_onoff" /\ c.args = <<FALSE>>
              IN  (op_mode' = "off") <=> turnOff
        /\ ApplyLed => UNCHANGED leds_pending ]_vars

\* The records r and q agree in mode, brightness, colour and timing.
SameState(r, q) ==
    /\ r.op_mode = q.op_mode
    /\ r.brightness = q.brightness
    /\ r.color_r = q.color_r
    /\ r.color_g = q.color_g
    /\ r.color_b = q.color_b
    /\ r.t_on = q.t_on
    /\ r.t_off = q.t_off

\* C16: a tick issues no hardware call for a probed light whose applied
\* record equals its pending record (the store's and the tick's snapshot of
\* it) in mode, brightness, colour and timing, whether or not oneshot is
\* enabled and whatever the time.  (Stated for the lights whose oneshot flag,
\* if set, was set by an oneshot_set.)
C16_QuiescentWhenEqual ==
    [][ ( /\ ApplyLed
          /\ SameState(leds_applied[ei], leds_pending_copy[ei])
          /\ SameState(leds_applied[ei], leds_pending[ei])
          /\ oneshot_enabled[ei] => SetByOneshotSet(ei) )
        => NewCalls = <<>> ]_vars

\* C17: a tick whose snapshot holds pending mode off for a light issues no
\* set_brightness and no set_rgb for that light, whatever became of the
\* turn-off call and also when none was needed.
C17_OffLightNotReconciled ==
    \A i \in Leds :
        (LedDone(i) /\ leds_pending_copy[i].op_mode = "off")
        => \A k \in 1 .. Len(calls) :
              calls[k].led = i => calls[k].op = "set_onoff"

\* C18: the reconciliation of light ei computes its effective mode from the
\* snapshot, flag and start time of light ei, issues calls for light ei only,
\* changes the applied record of light ei only and leaves the store alone; a
\* locked branch of a command for light i leaves the pending records, flags
\* and start times of the other lights and all applied records alone; and
\* the calls of a tick come in increasing light order.
C18_PerLightIndependence ==
    /\ [](\A k, l \in 1 .. Len(calls) : k < l => calls[k].led <= calls[l].led)
    /\ [][ /\ ApplyLed =>
                /\ op_mode' = EffectiveMode(leds_pending_copy[ei], oneshot_enabled[ei],
                                            oneshot_start_time[ei], Time(now))
                /\ \A k \in 1 .. Len(NewCalls) : NewCalls[k].led = ei
                /\ \A j \in Leds \ {ei} : leds_applied'[j] = leds_applied[j]
                /\ UNCHANGED store
           /\ (hpc = "locked" /\ LineEnds) =>
                /\ \A j \in Leds \ {cmd.led_id} :
                      /\ leds_pending'[j] = leds_pending[j]
                      /\ oneshot_enabled'[j] = oneshot_enabled[j]
                      /\ oneshot_start_time'[j] = oneshot_start_time[j]
                /\ UNCHANGED leds_applied ]_vars

\* C18 witness: a tick has made calls for light 0 and then for light 1, and
\* the two lights differ in their oneshot flag.
C18_Witness ==
    /\ oneshot_enabled[0] # oneshot_enabled[UGREEN_MAX_LEDS - 1]
    /\ \E k, l \in 1 .. Len(calls) :
          /\ calls[k].led = 0
          /\ calls[l].led = UGREEN_MAX_LEDS - 1

\* C19: the pending mode, t_on, t_off, oneshot flag and start time a tick
\* computes the effective mode of a light from are values the store held
\* together at some instant between the tick's snapshot and that computation.
C19_ConsistentView ==
    [][ ApplyLed =>
          <<leds_pending_copy[ei].op_mode, leds_pending_copy[ei].t_on,
            leds_pending_copy[ei].t_off, oneshot_enabled[ei],
            oneshot_start_time[ei]>> \in held[ei] ]_vars

\* C20: for a probed light with oneshot enabled, a shot sets start_time to
\* the current time when the engine's computation treats the cycle as
\* finished at the shot's elapsed time (elapsed >= t_on + t_off), and leaves
\* start_time when the engine treats the pulse as still running.  (Stated
\* for lights whose flag an oneshot_set has set, and for shots during which
\* the clock did not move between the read of line 283 and the write.)
C20_ShotAgreesWithEngine ==
    [][ ( /\ Runs("shot")
          /\ cmd.led_id < probed_leds
          /\ SetByOneshotSet(cmd.led_id)
          /\ time_diff = Time(now) - oneshot_start_time[cmd.led_id] )
        => LET i == cmd.led_id
               p == leds_pending[i]
               finished == ~(time_diff < p.t_on) /\ ~(time_diff < p.t_on + p.t_off)
           IN  oneshot_start_time'[i] =
                  IF finished THEN Time(now) ELSE oneshot_start_time[i] ]_vars

\* Light i is probed and its oneshot flag is clear.
Plain(i) == i < probed_leds /\ ~oneshot_enabled[i]

\* The applied record of light i equals the pending one in mode, brightness
\* and colour.
Converged(i) ==
    /\ leds_applied[i].op_mode = leds_pending[i].op_mode
    /\ leds_applied[i].brightness = leds_pending[i].brightness
    /\ ~RgbDiffers(leds_applied[i], leds_pending[i])

C14_TimingConverges ==
    \A i \in Leds :
        []Plain(i) =>
           <>[](leds_pending[i].op_mode \in {"blink", "breath"} =>
                   /\ leds_applied[i].t_on = leds_pending[i].t_on
                   /\ leds_applied[i].t_off = leds_pending[i].t_off)

=============================================================================
